---- MODULE Spec2Model ----
(***************************************************************************)
(* A model of the event-calendar backend.                                  *)
(*                                                                         *)
(* Two engines live in the repository:                                     *)
(*   - the materialization engine of sessions/services.py, which stores    *)
(*     RecurrencePattern rows and SessionOccurrence rows (Spec);           *)
(*   - the exception-overlay engine of sessions/models.py and              *)
(*     sessions/views.py, which stores Session and SessionException rows   *)
(*     and resolves occurrences on read (SessionSpec).                     *)
(*                                                                         *)
(* Time: an instant is an integer number of ticks, TicksPerDay ticks to a  *)
(* day; a date is a day number, day 0 being a Monday, so that              *)
(* date.weekday() is the day number modulo 7.                              *)
(* An Optional value is a set: {} is None, {v} is the value v.             *)
(***************************************************************************)
EXTENDS Integers, Sequences, FiniteSets, Bags, TLC

VARIABLES
    patterns,          \* stored RecurrencePattern rows
    occurrences,       \* stored SessionOccurrence rows
    nextPatternId,     \* next primary key of RecurrencePattern
    nextOccurrenceId,  \* next primary key of SessionOccurrence
    now,               \* timezone.now()
    opCount,           \* number of service calls made so far
    lastOp,            \* the last service call: its arguments and what it returned
    sessions,          \* stored Session rows
    exceptions,        \* stored SessionException rows, a bag (a table may hold equal rows)
    response,          \* the response to the last request of SessionViewSet
    upsertCreated,     \* what the last update_or_create returned as `created`
    runs,              \* concurrent generation runs: where each is, and what it holds
    reqs               \* concurrent identical requests to manage_occurrence: where each is

serviceVars == <<patterns, occurrences, nextPatternId, nextOccurrenceId, now, opCount, lastOp>>
sessionVars == <<sessions, exceptions, response, upsertCreated>>
raceVars == <<runs, reqs>>
vars == <<serviceVars, sessionVars, raceVars>>

----------------------------------------------------------------------------
(* Bounds of the model *)

MaxOps == 3
MaxClockSteps == 1
TicksPerDay == 2
MaxRuns == 2
LastWindowDay == 35

(* Program constants *)

DAYS_PER_MONTH == 30
DaysPerWeek == 7

----------------------------------------------------------------------------
(* Dates and instants *)

None == {}
Some(v) == {v}
Get(opt) == CHOOSE v \in opt : TRUE

Weekday(d) == d % DaysPerWeek
DateOf(t) == t \div TicksPerDay
TimeOf(t) == t % TicksPerDay
MakeAwareDatetime(d, tm) == d * TicksPerDay + tm

InitialNow == 10 * TicksPerDay

Range(s) == {s[i] : i \in DOMAIN s}

----------------------------------------------------------------------------
(* Stored rows *)

PatternOf(id) == CHOOSE p \in patterns : p.id = id
OccurrenceOf(id) == CHOOSE o \in occurrences : o.id = id
PatternIds == {p.id : p \in patterns}
OccurrenceIds == {o.id : o \in occurrences}
ForPattern(occs, pid) == {o \in occs : o.recurrence_pattern = Some(pid)}

----------------------------------------------------------------------------
(* OccurrenceGenerationService *)

\* Mutant: the end date of the pattern is ignored.
GetEndGenerationDateHorizonOnly(pattern, months_ahead, t) ==
    DateOf(t) + DAYS_PER_MONTH * months_ahead

GetEndGenerationDate(pattern, months_ahead, t) ==
    LET end_generation_date == DateOf(t) + DAYS_PER_MONTH * months_ahead
    IN  IF pattern.end_date # None /\ Get(pattern.end_date) < end_generation_date
        THEN Get(pattern.end_date)
        ELSE end_generation_date

RECURSIVE DatesFrom(_, _, _)
DatesFrom(current_date, end_date, weekday) ==
    IF current_date <= end_date
    THEN (IF Weekday(current_date) = weekday THEN <<current_date>> ELSE <<>>)
         \o DatesFrom(current_date + 1, end_date, weekday)
    ELSE <<>>

\* Mutant: one date a week from start_date, whatever its weekday.
RECURSIVE EverySevenDays(_, _)
EverySevenDays(current_date, end_date) ==
    IF current_date <= end_date
    THEN <<current_date>> \o EverySevenDays(current_date + DaysPerWeek, end_date)
    ELSE <<>>

CalculateOccurrenceDatesUnaligned(pattern, months_ahead, t) ==
    EverySevenDays(pattern.start_date, GetEndGenerationDate(pattern, months_ahead, t))

CalculateOccurrenceDates(pattern, months_ahead, t) ==
    DatesFrom(pattern.start_date,
              GetEndGenerationDate(pattern, months_ahead, t),
              pattern.weekday)

\* Mutant: no existence check.
ShouldCreateOccurrenceAlways(pattern, occurrence_date, occs) == TRUE

ShouldCreateOccurrence(pattern, occurrence_date, occs) ==
    LET occurrence_datetime == MakeAwareDatetime(occurrence_date, pattern.time)
    IN  ~ \E o \in occs :
            /\ o.recurrence_pattern = Some(pattern.id)
            /\ o.start_datetime = occurrence_datetime

\* generated_for is not a column: it records the instant of the pattern (date
\* and time) the row was generated for, None for a standalone row.
NewOccurrence(pattern, occurrence_date) ==
    [id |-> 0,
     generated_for |-> Some(MakeAwareDatetime(occurrence_date, pattern.time)),
     recurrence_pattern |-> Some(pattern.id),
     title |-> pattern.title,
     description |-> pattern.description,
     start_datetime |-> MakeAwareDatetime(occurrence_date, pattern.time),
     duration_minutes |-> pattern.duration_minutes,
     status |-> "scheduled",
     is_exception |-> FALSE]

CreateOccurrenceObjects(pattern, dates, occs) ==
    LET wanted == SelectSeq(dates, LAMBDA d : ShouldCreateOccurrence(pattern, d, occs))
    IN  [i \in DOMAIN wanted |-> NewOccurrence(pattern, wanted[i])]

BulkSaveOccurrences(objs, firstId) ==
    [i \in DOMAIN objs |-> [objs[i] EXCEPT !.id = firstId + i - 1]]

\* Mutant: generation that does not look at is_active.
GenerateForPatternInactiveToo(pattern, months_ahead, occs, firstId, t) ==
    BulkSaveOccurrences(
        CreateOccurrenceObjects(
            pattern, CalculateOccurrenceDates(pattern, months_ahead, t), occs),
        firstId)

\* The rows generate_for_pattern adds to the store (and returns), in order.
GenerateForPattern(pattern, months_ahead, occs, firstId, t) ==
    IF ~ pattern.is_active
    THEN <<>>
    ELSE BulkSaveOccurrences(
             CreateOccurrenceObjects(
                 pattern, CalculateOccurrenceDates(pattern, months_ahead, t), occs),
             firstId)

Ids(rows) == {rows[i].id : i \in DOMAIN rows}

\* The record of a service call. again: the call repeats the call before it
\* (generate_for_pattern of the same pattern, with the same months_ahead, on the
\* same date, and no other call in between).
Call(op, pid, oid, months, result, created) ==
    [op |-> op, pattern |-> pid, occurrence |-> oid, months |-> months,
     today |-> DateOf(now), result |-> result, created |-> created,
     again |-> /\ op = "generate_for_pattern"
               /\ lastOp.op = op
               /\ lastOp.pattern = pid
               /\ lastOp.months = months
               /\ lastOp.today = DateOf(now)]

MonthsAhead == {0, 1}

generate_for_pattern(pid, months_ahead) ==
    /\ opCount < MaxOps
    /\ pid \in PatternIds
    /\ LET created == GenerateForPattern(PatternOf(pid), months_ahead,
                                         occurrences, nextOccurrenceId, now)
       IN  /\ occurrences' = occurrences \cup Range(created)
           /\ nextOccurrenceId' = nextOccurrenceId + Len(created)
           /\ lastOp' = Call("generate_for_pattern", pid, 0, months_ahead, "ok", Ids(created))
    /\ opCount' = opCount + 1
    /\ UNCHANGED <<patterns, nextPatternId, now>>

\* RecurrencePattern.objects.active()
ActivePatterns(ps) == {p \in ps : p.is_active}

\* The orders in which a queryset without a known ordering can be iterated.
Orders(S) ==
    {seq \in [1 .. Cardinality(S) -> S] :
        \A i, j \in 1 .. Cardinality(S) : i # j => seq[i] # seq[j]}

\* Mutant: the loop stops after its first pattern.
GenerateForAllFirstOnly(order, months_ahead, occs, firstId, t) ==
    IF order = <<>> THEN <<>>
    ELSE GenerateForPattern(order[1], months_ahead, occs, firstId, t)

\* The loop of generate_for_all_patterns: the rows created, pattern by pattern.
RECURSIVE GenerateForAll(_, _, _, _, _)
GenerateForAll(order, months_ahead, occs, firstId, t) ==
    IF order = <<>> THEN <<>>
    ELSE LET created == GenerateForPattern(order[1], months_ahead, occs, firstId, t)
         IN  created \o GenerateForAll(Tail(order), months_ahead,
                                       occs \cup Range(created),
                                       firstId + Len(created), t)

generate_for_all_patterns(months_ahead) ==
    /\ opCount < MaxOps
    /\ \E order \in Orders(ActivePatterns(patterns)) :
         LET created == GenerateForAll(order, months_ahead, occurrences,
                                       nextOccurrenceId, now)
             total_created == Len(created)
         IN  /\ occurrences' = occurrences \cup Range(created)
             /\ nextOccurrenceId' = nextOccurrenceId + Len(created)
             /\ lastOp' = Call("generate_for_all_patterns", 0, 0, months_ahead, "ok",
                               Ids(created)) @@ [total |-> total_created]
    /\ opCount' = opCount + 1
    /\ UNCHANGED <<patterns, nextPatternId, now>>

\* Generation runs that execute concurrently: each run is generate_for_pattern
\* in two steps, its existence checks and then its bulk insert.
RunIds == 1 .. MaxRuns
IdleRun == [pc |-> "idle", pattern |-> 0, objs |-> <<>>]

\* The objects hold a start_datetime the pattern already has in the store.
Conflicts(objs, occs) ==
    \E i \in DOMAIN objs : \E o \in occs :
        /\ o.recurrence_pattern = objs[i].recurrence_pattern
        /\ o.start_datetime = objs[i].start_datetime

\* generate_for_pattern up to _create_occurrence_objects: the objects to insert.
RunCheck(r, pid, months_ahead) ==
    /\ runs[r].pc = "idle"
    /\ pid \in PatternIds
    /\ LET pattern == PatternOf(pid)
       IN  runs' = [runs EXCEPT ![r] =
                      IF ~ pattern.is_active
                      THEN [pc |-> "done", pattern |-> pid, objs |-> <<>>]
                      ELSE [pc |-> "checked", pattern |-> pid,
                            objs |-> CreateOccurrenceObjects(
                                         pattern,
                                         CalculateOccurrenceDates(pattern, months_ahead, now),
                                         occurrences)]]
    /\ UNCHANGED <<serviceVars, reqs>>

\* _bulk_save_occurrences of a run. A store that enforces uniqueness of
\* (pattern, start_datetime) rejects the insert of a conflicting object; a store
\* that does not enforce it accepts it.
RunInsert(r) ==
    /\ runs[r].pc = "checked"
    /\ \E raises \in IF Conflicts(runs[r].objs, occurrences) THEN BOOLEAN ELSE {FALSE} :
          IF raises
          THEN /\ runs' = [runs EXCEPT ![r].pc = "failed"]
               /\ UNCHANGED <<occurrences, nextOccurrenceId>>
          ELSE LET saved == BulkSaveOccurrences(runs[r].objs, nextOccurrenceId)
               IN  /\ occurrences' = occurrences \cup Range(saved)
                   /\ nextOccurrenceId' = nextOccurrenceId + Len(saved)
                   /\ runs' = [runs EXCEPT ![r].pc = "done"]
    /\ UNCHANGED <<patterns, nextPatternId, now, opCount, lastOp, reqs>>

----------------------------------------------------------------------------
(* RecurrencePatternService *)

\* Mutant: the writes made before an exception stay.
AtomicNoRollback(before, written, raised) == written

\* @transaction.atomic: the store after the body; the writes of a body that
\* raised are rolled back.
Atomic(before, written, raised) == IF raised THEN before ELSE written

\* Mutant: validation without the duration and end date checks.
ValidPatternDataWeekdayOnly(weekday, duration_minutes, start_date, end_date) ==
    0 <= weekday /\ weekday <= 6

ValidPatternData(weekday, duration_minutes, start_date, end_date) ==
    /\ 0 <= weekday /\ weekday <= 6
    /\ ~ (duration_minutes <= 0)
    /\ ~ (end_date # None /\ start_date >= Get(end_date))

NewPattern(weekday, start_date, end_date, generate_occurrences, months_ahead) ==
    [weekday |-> weekday, start_date |-> start_date, end_date |-> end_date,
     generate_occurrences |-> generate_occurrences, months_ahead |-> months_ahead]

\* The create requests of Spec: a start date before its first weekday, an open
\* pattern, a pattern that ends, one created without its occurrences, and two
\* requests that validation rejects.
PatternRequests ==
    {NewPattern(3, 1, None, TRUE, 0),
     NewPattern(3, 1, Some(17), TRUE, 1),
     NewPattern(0, 10, Some(17), FALSE, 1),
     NewPattern(7, 10, None, TRUE, 1),
     NewPattern(3, 10, Some(10), TRUE, 1)}

create_pattern(title, weekday, time_of_day, start_date, duration_minutes, description, end_date, generate_occurrences, months_ahead) ==
    /\ opCount < MaxOps
    /\ opCount' = opCount + 1
    /\ UNCHANGED now
    /\ IF ~ ValidPatternData(weekday, duration_minutes, start_date, end_date)
       THEN /\ lastOp' = Call("create_pattern", 0, 0, 0, "ValueError", {})
            /\ UNCHANGED <<patterns, occurrences, nextPatternId, nextOccurrenceId>>
       ELSE LET pattern == [id |-> nextPatternId,
                            title |-> title,
                            description |-> description,
                            weekday |-> weekday,
                            time |-> time_of_day,
                            duration_minutes |-> duration_minutes,
                            start_date |-> start_date,
                            end_date |-> end_date,
                            is_active |-> TRUE]
                created == IF generate_occurrences
                           THEN GenerateForPattern(pattern, months_ahead, occurrences,
                                                   nextOccurrenceId, now)
                           ELSE <<>>
            IN  \* bulk_create, the last write, may raise; it is called when
                \* there are occurrences to insert.
                \E db_fails \in IF Len(created) > 0 THEN BOOLEAN ELSE {FALSE} :
                    LET before == [patterns |-> patterns, occurrences |-> occurrences]
                        written == [patterns |-> patterns \cup {pattern},
                                    occurrences |-> IF db_fails THEN occurrences
                                                    ELSE occurrences \cup Range(created)]
                        stored == Atomic(before, written, db_fails)
                    IN  /\ patterns' = stored.patterns
                        /\ occurrences' = stored.occurrences
                        /\ nextPatternId' = IF pattern \in stored.patterns
                                            THEN nextPatternId + 1 ELSE nextPatternId
                        /\ nextOccurrenceId' = IF db_fails THEN nextOccurrenceId
                                               ELSE nextOccurrenceId + Len(created)
                        /\ lastOp' = IF db_fails
                                      THEN Call("create_pattern", 0, 0, 0, "DatabaseError", {})
                                      ELSE Call("create_pattern", pattern.id, 0, 0, "ok",
                                                Ids(created))

\* _apply_field_updates: a field is assigned when its value is not None.
Patch(old, opt) == IF opt # None THEN Get(opt) ELSE old

\* Mutant: the filter without is_exception=False.
FutureOccurrencesWithExceptions(occs, pid, t) ==
    {o \in occs : /\ o.recurrence_pattern = Some(pid)
                  /\ o.start_datetime >= t
                  /\ o.status = "scheduled"}

\* The rows the filter of _update_future_occurrences selects.
FutureOccurrences(occs, pid, t) ==
    {o \in occs : /\ o.recurrence_pattern = Some(pid)
                  /\ o.start_datetime >= t
                  /\ o.is_exception = FALSE
                  /\ o.status = "scheduled"}

\* queryset.update(**updates) with the title, description and duration supplied.
UpdateFutureOccurrences(occs, pid, update_data, t) ==
    LET future == FutureOccurrences(occs, pid, t)
    IN  {IF o \in future
         THEN [o EXCEPT !.title = Patch(@, update_data.title),
                        !.description = Patch(@, update_data.description),
                        !.duration_minutes = Patch(@, update_data.duration_minutes)]
         ELSE o : o \in occs}

NoPatternUpdate ==
    [title |-> None, description |-> None, time_of_day |-> None,
     duration_minutes |-> None, end_date |-> None, is_active |-> None]

PatternUpdateInputs ==
    {[NoPatternUpdate EXCEPT !.title = Some("t2"), !.time_of_day = Some(1)],
     [NoPatternUpdate EXCEPT !.description = Some("d2"), !.duration_minutes = Some(90)],
     [NoPatternUpdate EXCEPT !.title = Some("t2"), !.duration_minutes = Some(0)],
     [NoPatternUpdate EXCEPT !.is_active = Some(FALSE), !.end_date = Some(24)],
     [NoPatternUpdate EXCEPT !.description = Some("d2"), !.time_of_day = Some(1),
                             !.duration_minutes = Some(0 - 30)]}

update_pattern(pid, update_data, update_future_occurrences) ==
    /\ opCount < MaxOps
    /\ pid \in PatternIds
    /\ opCount' = opCount + 1
    /\ UNCHANGED <<now, nextPatternId, nextOccurrenceId>>
    /\ IF update_data.duration_minutes # None /\ Get(update_data.duration_minutes) <= 0
       THEN /\ lastOp' = Call("update_pattern", pid, 0, 0, "ValueError", {})
            /\ UNCHANGED <<patterns, occurrences>>
       ELSE LET old == PatternOf(pid)
                new == [old EXCEPT
                          !.title = Patch(@, update_data.title),
                          !.description = Patch(@, update_data.description),
                          !.time = Patch(@, update_data.time_of_day),
                          !.duration_minutes = Patch(@, update_data.duration_minutes),
                          !.end_date = IF update_data.end_date # None
                                       THEN update_data.end_date ELSE @,
                          !.is_active = Patch(@, update_data.is_active)]
            IN  /\ patterns' = (patterns \ {old}) \cup {new}
                /\ occurrences' = IF update_future_occurrences
                                  THEN UpdateFutureOccurrences(occurrences, pid, update_data, now)
                                  ELSE occurrences
                /\ lastOp' = Call("update_pattern", pid, 0, 0, "ok", {})

\* Mutant: the filter of delete_pattern without its recurrence_pattern condition.
FutureOfAnyPattern(occs, pid, t) == {o \in occs : o.start_datetime >= t}

\* filter(recurrence_pattern=pattern, start_datetime__gte=timezone.now())
FutureOfPattern(occs, pid, t) ==
    {o \in occs : o.recurrence_pattern = Some(pid) /\ o.start_datetime >= t}

\* pattern.delete(): the rows that still refer to the pattern are deleted with it
\* (cascade on rule deletion).
CascadeDelete(occs, pid) == {o \in occs : o.recurrence_pattern # Some(pid)}

delete_pattern(pid, delete_future_occurrences) ==
    /\ opCount < MaxOps
    /\ pid \in PatternIds
    /\ opCount' = opCount + 1
    /\ UNCHANGED <<now, nextPatternId, nextOccurrenceId>>
    /\ IF delete_future_occurrences
       THEN /\ occurrences' =
                  CascadeDelete(occurrences \ FutureOfPattern(occurrences, pid, now), pid)
            /\ patterns' = patterns \ {PatternOf(pid)}
       ELSE /\ patterns' = (patterns \ {PatternOf(pid)})
                               \cup {[PatternOf(pid) EXCEPT !.is_active = FALSE]}
            /\ UNCHANGED occurrences
    /\ lastOp' = Call("delete_pattern", pid, 0, 0, "ok", {})
                     @@ [delete_future_occurrences |-> delete_future_occurrences]

----------------------------------------------------------------------------
(* OccurrenceService *)

Replace(occs, old, new) == (occs \ {old}) \cup {new}

\* Mutant: a duration of zero passes.
ValidDurationZeroAllowed(duration_minutes) == ~ (duration_minutes < 0 - 30)

\* _validate_duration
ValidDuration(duration_minutes) == ~ (duration_minutes <= 0)

create_one_time(title, start_datetime, duration_minutes, description) ==
    /\ opCount < MaxOps
    /\ opCount' = opCount + 1
    /\ UNCHANGED <<now, patterns, nextPatternId>>
    /\ IF ~ ValidDuration(duration_minutes)
       THEN /\ lastOp' = Call("create_one_time", 0, 0, 0, "ValueError", {})
            /\ UNCHANGED <<occurrences, nextOccurrenceId>>
       ELSE LET occurrence == [id |-> nextOccurrenceId,
                               generated_for |-> None,
                               recurrence_pattern |-> None,
                               title |-> title,
                               description |-> description,
                               start_datetime |-> start_datetime,
                               duration_minutes |-> duration_minutes,
                               status |-> "scheduled",
                               is_exception |-> FALSE]
            IN  /\ occurrences' = occurrences \cup {occurrence}
                /\ nextOccurrenceId' = nextOccurrenceId + 1
                /\ lastOp' = Call("create_one_time", 0, occurrence.id, 0, "ok",
                                  {occurrence.id})

\* Mutant: the occurrence is marked an exception whether or not it has a pattern.
UpdateOccurrenceDatetimeAlwaysException(occurrence, new_datetime) ==
    [occurrence EXCEPT !.start_datetime = new_datetime, !.is_exception = TRUE]

\* _update_occurrence_datetime
UpdateOccurrenceDatetime(occurrence, new_datetime) ==
    [occurrence EXCEPT
        !.start_datetime = new_datetime,
        !.is_exception = IF occurrence.recurrence_pattern # None THEN TRUE ELSE @]

\* Mutant: only the title is assigned.
UpdatedOccurrenceTitleOnly(occurrence, update_data) ==
    [occurrence EXCEPT !.title = Patch(@, update_data.title)]

\* The occurrence as update_occurrence saves it (the duration already validated).
UpdatedOccurrence(occurrence, update_data) ==
    LET moved == IF update_data.start_datetime # None
                 THEN UpdateOccurrenceDatetime(occurrence, Get(update_data.start_datetime))
                 ELSE occurrence
    IN  [moved EXCEPT !.title = Patch(@, update_data.title),
                      !.description = Patch(@, update_data.description),
                      !.duration_minutes = Patch(@, update_data.duration_minutes)]

NoOccurrenceUpdate ==
    [title |-> None, description |-> None, start_datetime |-> None,
     duration_minutes |-> None]

OccurrenceUpdateInputs ==
    {[NoOccurrenceUpdate EXCEPT !.start_datetime = Some(MakeAwareDatetime(11, 1))],
     [NoOccurrenceUpdate EXCEPT !.title = Some("t2"), !.duration_minutes = Some(90)],
     [NoOccurrenceUpdate EXCEPT !.description = Some("d2"), !.duration_minutes = Some(0)],
     [NoOccurrenceUpdate EXCEPT !.title = Some("t2"),
                                !.start_datetime = Some(MakeAwareDatetime(11, 1)),
                                !.duration_minutes = Some(0 - 30)]}

update_occurrence(oid, update_data) ==
    /\ opCount < MaxOps
    /\ oid \in OccurrenceIds
    /\ opCount' = opCount + 1
    /\ UNCHANGED <<now, patterns, nextPatternId, nextOccurrenceId>>
    /\ IF update_data.duration_minutes # None
          /\ ~ ValidDuration(Get(update_data.duration_minutes))
       THEN /\ lastOp' = Call("update_occurrence", 0, oid, 0, "ValueError", {})
            /\ UNCHANGED occurrences
       ELSE /\ occurrences' = Replace(occurrences, OccurrenceOf(oid),
                                      UpdatedOccurrence(OccurrenceOf(oid), update_data))
            /\ lastOp' = Call("update_occurrence", 0, oid, 0, "ok", {})

\* The errors cancel_occurrence and complete_occurrence raise.
AlreadyCancelled == "ValueError: Occurrence is already cancelled"
AlreadyCompleted == "ValueError: Occurrence is already completed"
CancelledCannotComplete == "ValueError: Cannot complete a cancelled occurrence"

\* Mutant: no guard.
CancelRejectedNever(occurrence) == FALSE

\* Whether cancel_occurrence raises.
CancelRejected(occurrence) == occurrence.status = "cancelled"

\* Mutant: the status is set and is_exception is left alone.
CancelledOccurrenceStatusOnly(occurrence) == [occurrence EXCEPT !.status = "cancelled"]

\* The occurrence as cancel_occurrence saves it.
CancelledOccurrence(occurrence) ==
    [occurrence EXCEPT
        !.status = "cancelled",
        !.is_exception = IF occurrence.recurrence_pattern # None THEN TRUE ELSE @]

cancel_occurrence(oid) ==
    /\ opCount < MaxOps
    /\ oid \in OccurrenceIds
    /\ opCount' = opCount + 1
    /\ UNCHANGED <<now, patterns, nextPatternId, nextOccurrenceId>>
    /\ IF CancelRejected(OccurrenceOf(oid))
       THEN /\ lastOp' = Call("cancel_occurrence", 0, oid, 0, AlreadyCancelled, {})
            /\ UNCHANGED occurrences
       ELSE /\ occurrences' = Replace(occurrences, OccurrenceOf(oid),
                                      CancelledOccurrence(OccurrenceOf(oid)))
            /\ lastOp' = Call("cancel_occurrence", 0, oid, 0, "ok", {})

\* Mutant: the guard on cancelled is missing.
CompleteErrorCompletedOnly(occurrence) ==
    IF occurrence.status = "completed" THEN AlreadyCompleted ELSE "ok"

\* The error complete_occurrence raises, "ok" when it raises none.
CompleteError(occurrence) ==
    IF occurrence.status = "completed" THEN AlreadyCompleted
    ELSE IF occurrence.status = "cancelled" THEN CancelledCannotComplete
    ELSE "ok"

\* Mutant: completing also clears is_exception.
CompletedOccurrenceClearsException(occurrence) ==
    [occurrence EXCEPT !.status = "completed", !.is_exception = FALSE]

\* The occurrence as complete_occurrence saves it.
CompletedOccurrence(occurrence) == [occurrence EXCEPT !.status = "completed"]

complete_occurrence(oid) ==
    /\ opCount < MaxOps
    /\ oid \in OccurrenceIds
    /\ opCount' = opCount + 1
    /\ UNCHANGED <<now, patterns, nextPatternId, nextOccurrenceId>>
    /\ LET error == CompleteError(OccurrenceOf(oid))
       IN  /\ lastOp' = Call("complete_occurrence", 0, oid, 0, error, {})
           /\ occurrences' = IF error = "ok"
                             THEN Replace(occurrences, OccurrenceOf(oid),
                                          CompletedOccurrence(OccurrenceOf(oid)))
                             ELSE occurrences

\* SessionOccurrenceQuerySet.in_range: both comparisons admit equality.
InRange(occs, start_datetime, end_datetime) ==
    {o \in occs : o.start_datetime >= start_datetime /\ o.start_datetime <= end_datetime}

\* The rows of a queryset as a list, by ascending start_datetime (then by id).
RECURSIVE OrderedByStart(_)
OrderedByStart(rows) ==
    IF rows = {} THEN <<>>
    ELSE LET first == CHOOSE o \in rows : \A o2 \in rows :
                          \/ o.start_datetime < o2.start_datetime
                          \/ o.start_datetime = o2.start_datetime /\ o.id <= o2.id
         IN  <<first>> \o OrderedByStart(rows \ {first})

\* What get_occurrences_in_range returns when it does not raise.
OccurrencesInRange(occs, start_datetime, end_datetime, status) ==
    LET queryset == InRange(occs, start_datetime, end_datetime)
    IN  OrderedByStart(IF status # None
                       THEN {o \in queryset : o.status = Get(status)}
                       ELSE queryset)

get_occurrences_in_range(start_datetime, end_datetime, status) ==
    /\ opCount < MaxOps
    /\ opCount' = opCount + 1
    /\ UNCHANGED <<now, patterns, occurrences, nextPatternId, nextOccurrenceId>>
    /\ LET raises == start_datetime >= end_datetime
           returned == IF raises THEN <<>>
                       ELSE OccurrencesInRange(occurrences, start_datetime,
                                               end_datetime, status)
       IN  lastOp' = Call("get_occurrences_in_range", 0, 0, 0,
                          IF raises THEN "ValueError" ELSE "ok", {})
                     @@ [start |-> start_datetime, end |-> end_datetime,
                         status |-> status, returned |-> returned]

----------------------------------------------------------------------------
(* The clock *)

Tick ==
    /\ now < InitialNow + MaxClockSteps
    /\ now' = now + 1
    /\ UNCHANGED <<patterns, occurrences, nextPatternId, nextOccurrenceId, opCount, lastOp>>

----------------------------------------------------------------------------
(* Session.get_occurrences: resolution of a session over a window *)

Week == DaysPerWeek * TicksPerDay

SessionOf(id) == CHOOSE x \in sessions : x.id = id
SessionIds == {x.id : x \in sessions}

ExceptionsOn(excs, sid, date) ==
    {e \in BagToSet(excs) : e.session = sid /\ e.exception_date = date}

\* Mutant: the overlay is never consulted.
FirstExceptionNone(excs, sid, date) == None

\* Mutant: the lookup is not keyed by the date.
FirstExceptionAnyDate(excs, sid, date) ==
    LET rows == {e \in BagToSet(excs) : e.session = sid}
    IN  IF rows = {} THEN None ELSE Some(CHOOSE e \in rows : TRUE)

\* self.exceptions.filter(exception_date=date).first(): None when there is no row.
FirstException(excs, sid, date) ==
    LET rows == ExceptionsOn(excs, sid, date)
    IN  IF rows = {} THEN None
        ELSE Some(CHOOSE e \in rows : TRUE)

OneTimeOccurrences(session, start_date, end_date, excs) ==
    IF start_date <= session.start_datetime /\ session.start_datetime <= end_date
    THEN LET exception == FirstException(excs, session.id, DateOf(session.start_datetime))
         IN  IF exception # None /\ Get(exception).is_cancelled
             THEN <<>>
             ELSE << [session_id |-> session.id,
                      occurrence_date |-> DateOf(session.start_datetime),
                      datetime |-> IF exception # None
                                   THEN Get(exception).modified_datetime
                                   ELSE Some(session.start_datetime),
                      is_modified |-> (exception # None /\ ~ Get(exception).is_cancelled),
                      is_base_session |-> TRUE] >>
    ELSE <<>>

RECURSIVE AtOrAfter(_, _)
AtOrAfter(current, start_date) ==
    IF current < start_date THEN AtOrAfter(current + Week, start_date) ELSE current

\* Mutant: the iteration starts at the start of the window.
FastForwardToWindowStart(current, start_date) ==
    IF start_date > current THEN start_date ELSE current

\* The fast-forward to the first occurrence in range.
FastForward(current, start_date) ==
    IF start_date > current
    THEN LET days_diff == (start_date - current) \div TicksPerDay
             weeks_diff == days_diff \div DaysPerWeek
         IN  AtOrAfter(current + weeks_diff * Week, start_date)
    ELSE current

RECURSIVE WeeklyOccurrences(_, _, _, _)
WeeklyOccurrences(session, current, end_date, excs) ==
    IF current <= end_date
    THEN LET occurrence_date == DateOf(current)
             exception == FirstException(excs, session.id, occurrence_date)
         IN  (IF exception # None /\ Get(exception).is_cancelled
              THEN <<>>
              ELSE << [session_id |-> session.id,
                       occurrence_date |-> occurrence_date,
                       datetime |-> IF exception # None
                                    THEN Get(exception).modified_datetime
                                    ELSE Some(current),
                       is_modified |-> (exception # None),
                       is_base_session |-> FALSE] >>)
             \o WeeklyOccurrences(session, current + Week, end_date, excs)
    ELSE <<>>

GetOccurrences(session, start_date, end_date, excs) ==
    IF session.session_type = "one_time"
    THEN OneTimeOccurrences(session, start_date, end_date, excs)
    ELSE WeeklyOccurrences(session, FastForward(session.start_datetime, start_date),
                           end_date, excs)

\* A call of get_occurrences that is pending: lastOp holds its arguments; the
\* step records what it returns.
get_occurrences ==
    /\ lastOp.op = "request"
    /\ lastOp.session \in SessionIds
    /\ lastOp' = [op |-> "get_occurrences", session |-> lastOp.session,
                  start |-> lastOp.start, end |-> lastOp.end,
                  returned |-> GetOccurrences(SessionOf(lastOp.session), lastOp.start,
                                              lastOp.end, exceptions)]
    /\ UNCHANGED <<patterns, occurrences, nextPatternId, nextOccurrenceId, now, opCount>>
    /\ UNCHANGED sessionVars

----------------------------------------------------------------------------
(* SessionViewSet.manage_occurrence *)

\* Session.clean (and SessionSerializer.validate)
ValidSession(session_type, start_datetime, recurrence_day) ==
    IF session_type = "recurring"
    THEN /\ recurrence_day # None
         /\ Weekday(DateOf(start_datetime)) = Get(recurrence_day)
    ELSE recurrence_day = None

\* The sessions of the store: two weekly sessions on Mondays, the second
\* starting a week after the first, and a one-time session.
StoredSessions ==
    {[id |-> 1, session_type |-> "recurring",
      start_datetime |-> MakeAwareDatetime(7, 1), recurrence_day |-> Some(0)],
     [id |-> 2, session_type |-> "recurring",
      start_datetime |-> MakeAwareDatetime(14, 0), recurrence_day |-> Some(0)],
     [id |-> 3, session_type |-> "one_time",
      start_datetime |-> MakeAwareDatetime(9, 0), recurrence_day |-> None]}

\* SessionException.clean
ValidException(is_cancelled, modified_datetime) ==
    /\ ~ (is_cancelled /\ modified_datetime # None)
    /\ ~ (~ is_cancelled /\ modified_datetime = None)

\* Mutant: a cancel leaves the modified_datetime of the row it updates.
UpdateOrCreateKeepsDatetime(excs, sid, date, is_cancelled, modified_datetime) ==
    LET rows == ExceptionsOn(excs, sid, date)
        old == CHOOSE e \in rows : TRUE
    IN  IF rows = {}
        THEN excs (+) SetToBag({[session |-> sid, exception_date |-> date,
                                 is_cancelled |-> is_cancelled,
                                 modified_datetime |-> modified_datetime]})
        ELSE (excs (-) SetToBag({old}))
                 (+) SetToBag({[session |-> sid, exception_date |-> date,
                                is_cancelled |-> is_cancelled,
                                modified_datetime |->
                                    IF is_cancelled THEN old.modified_datetime
                                    ELSE modified_datetime]})

\* Mutant: a row that exists is left as it is.
UpdateOrCreateFirstWriteWins(excs, sid, date, is_cancelled, modified_datetime) ==
    IF ExceptionsOn(excs, sid, date) = {}
    THEN excs (+) SetToBag({[session |-> sid, exception_date |-> date,
                             is_cancelled |-> is_cancelled,
                             modified_datetime |-> modified_datetime]})
    ELSE excs

\* Mutant: a row is inserted whether or not one exists.
UpdateOrCreateAlwaysCreates(excs, sid, date, is_cancelled, modified_datetime) ==
    excs (+) SetToBag({[session |-> sid, exception_date |-> date,
                        is_cancelled |-> is_cancelled,
                        modified_datetime |-> modified_datetime]})

\* SessionException.objects.update_or_create(session, exception_date, defaults):
\* the rows of the store afterwards.
UpdateOrCreate(excs, sid, date, is_cancelled, modified_datetime) ==
    LET rows == ExceptionsOn(excs, sid, date)
        new == [session |-> sid, exception_date |-> date,
                is_cancelled |-> is_cancelled,
                modified_datetime |-> modified_datetime]
    IN  IF rows = {}
        THEN excs (+) SetToBag({new})
        ELSE (excs (-) SetToBag({CHOOSE e \in rows : TRUE})) (+) SetToBag({new})

\* Mutant: the check against the session start date is missing.
OccurrenceDateErrorNoStartCheck(session, occ_date) ==
    IF session.session_type = "one_time"
    THEN IF occ_date # DateOf(session.start_datetime)
         THEN "400 one-time session on a different date" ELSE "ok"
    ELSE IF Some(Weekday(occ_date)) # session.recurrence_day
         THEN "400 not on the recurrence day" ELSE "ok"

\* The checks of manage_occurrence on the date: the error it responds with,
\* "ok" when the date is accepted.
OccurrenceDateError(session, occ_date) ==
    IF session.session_type = "one_time"
    THEN IF occ_date # DateOf(session.start_datetime)
         THEN "400 one-time session on a different date" ELSE "ok"
    ELSE IF Some(Weekday(occ_date)) # session.recurrence_day
         THEN "400 not on the recurrence day"
         ELSE IF occ_date < DateOf(session.start_datetime)
              THEN "400 before the session start date" ELSE "ok"

\* OccurrenceUpdateSerializer.validate
ValidOccurrenceUpdate(new_datetime, cancel) ==
    /\ ~ (cancel /\ new_datetime # None)
    /\ ~ (~ cancel /\ new_datetime = None)

\* Number of stored exception rows for (session, date).
CountOn(excs, sid, date) ==
    BagCardinality([e \in ExceptionsOn(excs, sid, date) |-> CopiesIn(e, excs)])

Upsert(sid, occ_date, is_cancelled, modified_datetime, ok) ==
    IF CountOn(exceptions, sid, occ_date) > 1
    THEN /\ response' = "500 MultipleObjectsReturned"
         /\ UNCHANGED <<exceptions, upsertCreated>>
    ELSE IF ~ ValidException(is_cancelled, modified_datetime)
    THEN /\ response' = "500 ValidationError"
         /\ UNCHANGED <<exceptions, upsertCreated>>
    ELSE /\ exceptions' = UpdateOrCreate(exceptions, sid, occ_date,
                                         is_cancelled, modified_datetime)
         /\ upsertCreated' = (ExceptionsOn(exceptions, sid, occ_date) = {})
         /\ response' = ok

manage_occurrence(sid, occ_date, method, new_datetime, cancel) ==
    /\ sid \in SessionIds
    /\ UNCHANGED sessions
    /\ LET session == SessionOf(sid)
           error == OccurrenceDateError(session, occ_date)
       IN  IF error # "ok"
           THEN /\ response' = error
                /\ UNCHANGED <<exceptions, upsertCreated>>
           ELSE IF method = "DELETE"
           THEN Upsert(sid, occ_date, TRUE, None, "200 cancelled")
           ELSE IF ~ ValidOccurrenceUpdate(new_datetime, cancel)
           THEN /\ response' = "400 invalid occurrence update"
                /\ UNCHANGED <<exceptions, upsertCreated>>
           ELSE IF cancel
           THEN Upsert(sid, occ_date, TRUE, None, "200 cancelled")
           ELSE Upsert(sid, occ_date, FALSE, new_datetime, "200 moved")

----------------------------------------------------------------------------
(* SessionViewSet.list with start and end *)

\* Session.objects.all(), in the order of Meta.ordering, start_datetime.
RECURSIVE SessionsInOrder(_)
SessionsInOrder(stored) ==
    IF stored = {} THEN <<>>
    ELSE LET first == CHOOSE x \in stored :
                          \A y \in stored : x.start_datetime <= y.start_datetime
         IN  <<first>> \o SessionsInOrder(stored \ {first})

\* all_occurrences after the loop: the occurrences of each session, appended.
RECURSIVE AllOccurrences(_, _, _, _)
AllOccurrences(order, start_dt, end_dt, excs) ==
    IF order = <<>> THEN <<>>
    ELSE GetOccurrences(Head(order), start_dt, end_dt, excs)
             \o AllOccurrences(Tail(order), start_dt, end_dt, excs)

\* Mutant: the list is returned as the loop left it.
Unsorted(entries) == entries

\* One step of the sort: the entry goes after the entries that are not later.
InsertByDatetime(sorted, en) ==
    LET k == Cardinality({i \in DOMAIN sorted :
                             Get(sorted[i].datetime) <= Get(en.datetime)})
    IN  SubSeq(sorted, 1, k) \o <<en>> \o SubSeq(sorted, k + 1, Len(sorted))

\* all_occurrences.sort(key=lambda x: x['datetime']): a stable sort.
RECURSIVE SortByDatetime(_)
SortByDatetime(entries) ==
    IF entries = <<>> THEN <<>>
    ELSE InsertByDatetime(SortByDatetime(SubSeq(entries, 1, Len(entries) - 1)),
                          entries[Len(entries)])

\* The response of list to a request with start and end.
list(start_dt, end_dt) ==
    IF start_dt >= end_dt
    THEN [status |-> "400", data |-> <<>>]
    ELSE [status |-> "200",
          data |-> SortByDatetime(
                       AllOccurrences(SessionsInOrder(sessions), start_dt, end_dt,
                                      exceptions))]


----------------------------------------------------------------------------
(* update_or_create of manage_occurrence, step by step, for concurrent requests *)

\* The two requests that execute concurrently.
ReqIds == {1, 2}
IdleReq == [pc |-> "idle", session |-> 0, exception_date |-> 0,
            is_cancelled |-> FALSE, modified_datetime |-> None, before |-> EmptyBag]

\* The row a request writes.
RowOf(q) ==
    [session |-> q.session, exception_date |-> q.exception_date,
     is_cancelled |-> q.is_cancelled, modified_datetime |-> q.modified_datetime]

\* Mutant: the store does not enforce unique_together.
UniqueViolationNotEnforced(excs, sid, date) == FALSE

\* unique_together = ['session', 'exception_date']: an insert for a pair that
\* has a row is rejected.
UniqueViolation(excs, sid, date) == ExceptionsOn(excs, sid, date) # {}

\* Both requests arrive: the same method, date and body, accepted by the checks
\* of manage_occurrence and by the serializer.
RaceStart(sid, occ_date, is_cancelled, modified_datetime) ==
    /\ \A r \in ReqIds : reqs[r].pc = "idle"
    /\ sid \in SessionIds
    /\ OccurrenceDateError(SessionOf(sid), occ_date) = "ok"
    /\ ValidOccurrenceUpdate(modified_datetime, is_cancelled)
    /\ reqs' = [r \in ReqIds |->
                    [pc |-> "started", session |-> sid, exception_date |-> occ_date,
                     is_cancelled |-> is_cancelled,
                     modified_datetime |-> modified_datetime, before |-> exceptions]]
    /\ UNCHANGED <<sessions, exceptions, response, upsertCreated>>

\* update_or_create: the lookup of the row by (session, exception_date).
ReqGet(r) ==
    /\ reqs[r].pc = "started"
    /\ reqs' = [reqs EXCEPT ![r].pc =
                    IF ExceptionsOn(exceptions, reqs[r].session, reqs[r].exception_date) # {}
                    THEN "found" ELSE "missing"]
    /\ UNCHANGED <<sessions, exceptions, response, upsertCreated>>

\* update_or_create on a row that exists: the defaults are assigned and the row saved.
ReqUpdate(r) ==
    /\ reqs[r].pc = "found"
    /\ exceptions' = UpdateOrCreate(exceptions, reqs[r].session, reqs[r].exception_date,
                                    reqs[r].is_cancelled, reqs[r].modified_datetime)
    /\ reqs' = [reqs EXCEPT ![r].pc = "done"]
    /\ UNCHANGED <<sessions, response, upsertCreated>>

\* SessionException.save of a new row: full_clean, which runs clean and the
\* uniqueness validation; a ValidationError ends the request.
ReqValidate(r) ==
    /\ reqs[r].pc = "missing"
    /\ reqs' = [reqs EXCEPT ![r].pc =
                    IF \/ ~ ValidException(reqs[r].is_cancelled, reqs[r].modified_datetime)
                       \/ ExceptionsOn(exceptions, reqs[r].session,
                                       reqs[r].exception_date) # {}
                    THEN "failed" ELSE "validated"]
    /\ UNCHANGED <<sessions, exceptions, response, upsertCreated>>

\* The insert of the new row. When the store rejects it, update_or_create
\* looks the row up again and updates it.
ReqInsert(r) ==
    /\ reqs[r].pc = "validated"
    /\ IF UniqueViolation(exceptions, reqs[r].session, reqs[r].exception_date)
       THEN /\ reqs' = [reqs EXCEPT ![r].pc = "found"]
            /\ UNCHANGED exceptions
       ELSE /\ exceptions' = exceptions (+) SetToBag({RowOf(reqs[r])})
            /\ reqs' = [reqs EXCEPT ![r].pc = "done"]
    /\ UNCHANGED <<sessions, response, upsertCreated>>

----------------------------------------------------------------------------
(* The materialization engine: no pattern and no occurrence, then any service calls *)

Init ==
    /\ patterns = {}
    /\ occurrences = {}
    /\ nextPatternId = 1
    /\ nextOccurrenceId = 1
    /\ now = InitialNow
    /\ opCount = 0
    /\ lastOp = [op |-> "none", pattern |-> 0, occurrence |-> 0, months |-> 0,
                 today |-> DateOf(InitialNow), result |-> "ok", created |-> {},
                 again |-> FALSE]
    /\ sessions = StoredSessions
    /\ \A x \in sessions : ValidSession(x.session_type, x.start_datetime, x.recurrence_day)
    /\ exceptions = EmptyBag
    /\ response = "none"
    /\ upsertCreated = FALSE
    /\ runs = [r \in RunIds |-> IdleRun]
    /\ reqs = [r \in ReqIds |-> IdleReq]

CreatePattern ==
    /\ \E r \in PatternRequests :
        create_pattern("t1", r.weekday, 0, r.start_date, 60, "d1", r.end_date,
                       r.generate_occurrences, r.months_ahead)
    /\ UNCHANGED <<sessionVars, raceVars>>

GeneratePattern ==
    /\ \E pid \in PatternIds, months_ahead \in MonthsAhead :
        generate_for_pattern(pid, months_ahead)
    /\ UNCHANGED <<sessionVars, raceVars>>

UpdatePattern ==
    /\ \E pid \in PatternIds, update_data \in PatternUpdateInputs,
          update_future_occurrences \in BOOLEAN :
        update_pattern(pid, update_data, update_future_occurrences)
    /\ UNCHANGED <<sessionVars, raceVars>>

CreateOneTime ==
    /\ \E duration_minutes \in {60, 0} :
        create_one_time("t1", MakeAwareDatetime(12, 0), duration_minutes, "d1")
    /\ UNCHANGED <<sessionVars, raceVars>>

UpdateOccurrence ==
    /\ \E oid \in OccurrenceIds, update_data \in OccurrenceUpdateInputs :
        update_occurrence(oid, update_data)
    /\ UNCHANGED <<sessionVars, raceVars>>

CancelOccurrence ==
    /\ \E oid \in OccurrenceIds : cancel_occurrence(oid)
    /\ UNCHANGED <<sessionVars, raceVars>>

CompleteOccurrence ==
    /\ \E oid \in OccurrenceIds : complete_occurrence(oid)
    /\ UNCHANGED <<sessionVars, raceVars>>

ClockTick == Tick /\ UNCHANGED <<sessionVars, raceVars>>

Next ==
    \/ CreatePattern
    \/ GeneratePattern
    \/ UpdatePattern
    \/ CreateOneTime
    \/ UpdateOccurrence
    \/ CancelOccurrence
    \/ CompleteOccurrence
    \/ ClockTick

Spec == Init /\ [][Next]_vars

----------------------------------------------------------------------------
(* The life of a pattern: creation, generation runs, deactivation, deletion *)

\* Requests of create_pattern: those of PatternRequests and ones that
\* _validate_pattern_data refuses for each of its three reasons.
LifecycleRequests ==
    PatternRequests \cup
    {NewPattern(0 - 1, 10, None, TRUE, 1),
     NewPattern(3, 10, Some(3), TRUE, 1)}

SubmitPattern ==
    /\ \E r \in LifecycleRequests, duration_minutes \in {60, 0} :
        create_pattern("t1", r.weekday, 0, r.start_date, duration_minutes, "d1",
                       r.end_date, r.generate_occurrences, r.months_ahead)
    /\ UNCHANGED <<sessionVars, raceVars>>

GenerateAll ==
    /\ \E months_ahead \in MonthsAhead : generate_for_all_patterns(months_ahead)
    /\ UNCHANGED <<sessionVars, raceVars>>

DeletePattern ==
    /\ \E pid \in PatternIds, delete_future_occurrences \in BOOLEAN :
        delete_pattern(pid, delete_future_occurrences)
    /\ UNCHANGED <<sessionVars, raceVars>>

LifecycleNext ==
    \/ SubmitPattern
    \/ GeneratePattern
    \/ GenerateAll
    \/ DeletePattern
    \/ CreateOneTime
    \/ ClockTick

LifecycleSpec == Init /\ [][LifecycleNext]_vars

----------------------------------------------------------------------------
(* Patterns that are generated for and updated, their occurrences never edited *)

TemplateNext ==
    \/ CreatePattern
    \/ GeneratePattern
    \/ UpdatePattern
    \/ ClockTick

TemplateSpec == Init /\ [][TemplateNext]_vars


----------------------------------------------------------------------------
(* The materialization engine read through get_occurrences_in_range *)

\* The windows asked for: one that starts and ends on stored start instants, one
\* that ends between them, and one that is empty.
RangeWindows ==
    {[start |-> MakeAwareDatetime(10, 0), end |-> MakeAwareDatetime(12, 0)],
     [start |-> MakeAwareDatetime(3, 1), end |-> MakeAwareDatetime(11, 1)],
     [start |-> MakeAwareDatetime(12, 0), end |-> MakeAwareDatetime(10, 0)]}

ListInRange ==
    /\ \E w \in RangeWindows, status \in {None, Some("scheduled")} :
          get_occurrences_in_range(w.start, w.end, status)
    /\ UNCHANGED <<sessionVars, raceVars>>

RangeNext ==
    \/ CreatePattern
    \/ CreateOneTime
    \/ UpdateOccurrence
    \/ CancelOccurrence
    \/ ListInRange

RangeSpec == Init /\ [][RangeNext]_vars

----------------------------------------------------------------------------
(* Concurrent generation runs over stored patterns *)

GenerationCheck ==
    /\ \E r \in RunIds, pid \in PatternIds, months_ahead \in MonthsAhead :
          RunCheck(r, pid, months_ahead)
    /\ UNCHANGED sessionVars

GenerationInsert ==
    /\ \E r \in RunIds : RunInsert(r)
    /\ UNCHANGED sessionVars

GenRaceNext ==
    \/ CreatePattern
    \/ GenerationCheck
    \/ GenerationInsert

GenRaceSpec == Init /\ [][GenRaceNext]_vars

----------------------------------------------------------------------------
(* The exception-overlay engine: the stored sessions, then any per-date requests *)

RequestDates == {7, 9, 14}
NewDatetimes == {MakeAwareDatetime(8, 0), MakeAwareDatetime(14, 1)}

CancelByDelete ==
    /\ \E sid \in SessionIds, occ_date \in RequestDates :
        manage_occurrence(sid, occ_date, "DELETE", None, FALSE)
    /\ UNCHANGED <<serviceVars, raceVars>>

PatchOccurrence ==
    /\ \E sid \in SessionIds, occ_date \in RequestDates,
          new_datetime \in {None} \cup {Some(t) : t \in NewDatetimes},
          cancel \in BOOLEAN :
        manage_occurrence(sid, occ_date, "PATCH", new_datetime, cancel)
    /\ UNCHANGED <<serviceVars, raceVars>>

SessionNext ==
    \/ CancelByDelete
    \/ PatchOccurrence

SessionSpec == Init /\ [][SessionNext]_vars

----------------------------------------------------------------------------
(* get_occurrences of the stored sessions over any window *)

\* The instants a window starts or ends at.
ResolveInstants ==
    {MakeAwareDatetime(d, tm) : d \in 0 .. LastWindowDay, tm \in 0 .. TicksPerDay - 1}

\* The stored sessions without exceptions, and one call of get_occurrences
\* pending, for any stored session and any window.
ResolveInit ==
    /\ patterns = {}
    /\ occurrences = {}
    /\ nextPatternId = 1
    /\ nextOccurrenceId = 1
    /\ now = InitialNow
    /\ opCount = 0
    /\ lastOp \in [op : {"request"}, session : {x.id : x \in StoredSessions},
                    start : ResolveInstants, end : ResolveInstants]
    /\ sessions = StoredSessions
    /\ exceptions = EmptyBag
    /\ response = "none"
    /\ upsertCreated = FALSE
    /\ runs = [r \in RunIds |-> IdleRun]
    /\ reqs = [r \in ReqIds |-> IdleReq]

ResolveWindow == get_occurrences /\ UNCHANGED raceVars

ResolveNext == ResolveWindow

ResolveSpec == ResolveInit /\ [][ResolveNext]_vars


----------------------------------------------------------------------------
(* Two identical concurrent requests to manage_occurrence, after any requests *)

\* The requests made twice at once: a cancel and a reschedule of a weekly
\* occurrence, and a cancel of the one-time session.
RaceRequests ==
    {[session |-> 1, exception_date |-> 14, is_cancelled |-> TRUE,
      modified_datetime |-> None],
     [session |-> 1, exception_date |-> 14, is_cancelled |-> FALSE,
      modified_datetime |-> Some(MakeAwareDatetime(14, 1))],
     [session |-> 3, exception_date |-> 9, is_cancelled |-> TRUE,
      modified_datetime |-> None]}

NoRace == \A r \in ReqIds : reqs[r].pc = "idle"

RequestsBefore ==
    /\ NoRace
    /\ CancelByDelete \/ PatchOccurrence

StartRace ==
    /\ \E q \in RaceRequests :
          RaceStart(q.session, q.exception_date, q.is_cancelled, q.modified_datetime)
    /\ UNCHANGED <<serviceVars, runs>>

RaceGet == (\E r \in ReqIds : ReqGet(r)) /\ UNCHANGED <<serviceVars, runs>>
RaceUpdate == (\E r \in ReqIds : ReqUpdate(r)) /\ UNCHANGED <<serviceVars, runs>>
RaceValidate == (\E r \in ReqIds : ReqValidate(r)) /\ UNCHANGED <<serviceVars, runs>>
RaceInsert == (\E r \in ReqIds : ReqInsert(r)) /\ UNCHANGED <<serviceVars, runs>>

UpsertRaceNext ==
    \/ RequestsBefore
    \/ StartRace
    \/ RaceGet
    \/ RaceUpdate
    \/ RaceValidate
    \/ RaceInsert

UpsertRaceSpec == Init /\ [][UpsertRaceNext]_vars

----------------------------------------------------------------------------
(* Claims on the materialization engine (Spec) *)

\* A step that is a service call.
IsCall(op) == opCount' = opCount + 1 /\ lastOp'.op = op

\* A second generate_for_pattern in succession, for an active pattern.
SecondGenerate ==
    /\ IsCall("generate_for_pattern")
    /\ lastOp'.again
    /\ PatternOf(lastOp'.pattern).is_active

\* C1 as stated: the second of two generate_for_pattern calls in succession
\* returns an empty list, and the pattern then has as many stored occurrences
\* as the first call created.
C1_SecondCallCountsFirstCall ==
    [][SecondGenerate =>
          /\ lastOp'.created = {}
          /\ Cardinality(ForPattern(occurrences', lastOp'.pattern))
                 = Cardinality(lastOp.created)]_vars

\* C1 amended: the second of two generate_for_pattern calls in succession
\* returns an empty list and leaves the store as the first call left it, so the
\* pattern has as many stored occurrences as after the first call.
C1_SecondGenerateCreatesNothing ==
    [][SecondGenerate =>
          /\ lastOp'.created = {}
          /\ occurrences' = occurrences
          /\ Cardinality(ForPattern(occurrences', lastOp'.pattern))
                 = Cardinality(ForPattern(occurrences, lastOp.pattern))]_vars

C1_Witness ==
    /\ lastOp.op = "generate_for_pattern"
    /\ lastOp.again
    /\ PatternOf(lastOp.pattern).is_active
    /\ lastOp.created = {}
    /\ ForPattern(occurrences, lastOp.pattern) # {}

\* C2: every occurrence generation creates for a pattern starts on a date whose
\* weekday is the pattern's weekday.
C2_GeneratedOnPatternWeekday ==
    lastOp.op \in {"generate_for_pattern", "create_pattern"} =>
        \A id \in lastOp.created :
            /\ OccurrenceOf(id).recurrence_pattern = Some(lastOp.pattern)
            /\ Weekday(DateOf(OccurrenceOf(id).start_datetime))
                   = PatternOf(lastOp.pattern).weekday

C2_Witness ==
    /\ lastOp.op = "generate_for_pattern"
    /\ Cardinality(lastOp.created) >= 2
    /\ Weekday(PatternOf(lastOp.pattern).start_date) # PatternOf(lastOp.pattern).weekday
    /\ PatternOf(lastOp.pattern).end_date # None

\* C5 as stated: once the status of an occurrence is cancelled or completed it
\* never changes again.
C5_TerminalStatus ==
    [][\A o \in occurrences : \A o2 \in occurrences' :
          (o.status \in {"cancelled", "completed"} /\ o2.id = o.id)
              => o2.status = o.status]_vars

\* C6: cancel_occurrence on a cancelled occurrence fails and changes nothing.
C6_CancelTwiceFails ==
    [][(IsCall("cancel_occurrence")
          /\ OccurrenceOf(lastOp'.occurrence).status = "cancelled")
         => /\ lastOp'.result = AlreadyCancelled
            /\ occurrences' = occurrences
            /\ patterns' = patterns]_vars

C6_Witness ==
    /\ lastOp.op = "cancel_occurrence"
    /\ lastOp.result = AlreadyCancelled
    /\ OccurrenceOf(lastOp.occurrence).status = "cancelled"

\* C7: complete_occurrence succeeds only on a scheduled occurrence; on a
\* completed one it fails with AlreadyCompleted, on a cancelled one with
\* CancelledCannotComplete, and a failure changes nothing.
C7_CompleteOnlyScheduled ==
    [][IsCall("complete_occurrence") =>
          LET before == OccurrenceOf(lastOp'.occurrence)
          IN  /\ before.status = "completed" =>
                    lastOp'.result = AlreadyCompleted /\ occurrences' = occurrences
              /\ before.status = "cancelled" =>
                    lastOp'.result = CancelledCannotComplete
                        /\ occurrences' = occurrences
              /\ before.status = "scheduled" =>
                    /\ lastOp'.result = "ok"
                    /\ occurrences' = Replace(occurrences, before,
                                              [before EXCEPT !.status = "completed"])
              /\ lastOp'.result = "ok" => before.status = "scheduled"]_vars

C7_Witness ==
    /\ lastOp.op = "complete_occurrence"
    /\ lastOp.result = CancelledCannotComplete
    /\ OccurrenceOf(lastOp.occurrence).status = "cancelled"

\* The occurrences update_pattern is to rewrite: future, not an exception, scheduled.
Propagated(o, pid) ==
    /\ o.recurrence_pattern = Some(pid)
    /\ o.start_datetime >= now
    /\ ~ o.is_exception
    /\ o.status = "scheduled"

\* C8 as stated: after update_pattern with update_future_occurrences = True, every
\* future, non-exception, scheduled occurrence of the pattern has the title,
\* description, duration and time of day supplied in the update.
C8_UpdatePropagatesAllFields ==
    [][\A pid \in PatternIds, d \in PatternUpdateInputs :
          (update_pattern(pid, d, TRUE) /\ lastOp'.result = "ok") =>
              \A o \in occurrences' :
                  Propagated(o, pid) =>
                      /\ d.title # None => o.title = Get(d.title)
                      /\ d.description # None => o.description = Get(d.description)
                      /\ d.duration_minutes # None
                             => o.duration_minutes = Get(d.duration_minutes)
                      /\ d.time_of_day # None
                             => TimeOf(o.start_datetime) = Get(d.time_of_day)]_vars

\* C9: update_pattern changes no occurrence that is past, an exception, cancelled
\* or completed, of another pattern or of no pattern; and it changes no
\* occurrence at all when update_future_occurrences = False.
C9_UpdatePatternFrame ==
    [][\A pid \in PatternIds, d \in PatternUpdateInputs, propagate \in BOOLEAN :
          update_pattern(pid, d, propagate) =>
              /\ {o.id : o \in occurrences'} = {o.id : o \in occurrences}
              /\ \A o \in occurrences :
                    (\/ o.start_datetime < now
                     \/ o.is_exception
                     \/ o.status \in {"cancelled", "completed"}
                     \/ o.recurrence_pattern # Some(pid)
                     \/ ~ propagate)
                        => o \in occurrences']_vars

C9_Witness ==
    /\ lastOp.op = "update_pattern"
    /\ lastOp.result = "ok"
    /\ PatternOf(lastOp.pattern).title = "t2"
    /\ \E o \in occurrences : Propagated(o, lastOp.pattern) /\ o.title = "t2"
    /\ \E o \in ForPattern(occurrences, lastOp.pattern) :
          o.start_datetime < now /\ o.title = "t1"
    /\ \E o \in occurrences :
          /\ o.is_exception \/ o.recurrence_pattern # Some(lastOp.pattern)
          /\ o.start_datetime >= now
          /\ o.title = "t1"

\* C16: generate_for_pattern creates no occurrence dated before the pattern's
\* start_date, after its end_date when it has one, or after today plus 30 days
\* for each month ahead; and an end_date on the pattern's weekday that is within
\* the horizon has its occurrence.
C16_GeneratedWithinBounds ==
    (lastOp.op = "generate_for_pattern" /\ PatternOf(lastOp.pattern).is_active) =>
        LET pattern == PatternOf(lastOp.pattern)
            horizon == lastOp.today + DAYS_PER_MONTH * lastOp.months
        IN  /\ \A id \in lastOp.created :
                  LET d == DateOf(OccurrenceOf(id).start_datetime)
                  IN  /\ d >= pattern.start_date
                      /\ pattern.end_date # None => d <= Get(pattern.end_date)
                      /\ d <= horizon
            /\ (/\ pattern.end_date # None
                /\ Get(pattern.end_date) <= horizon
                /\ Get(pattern.end_date) >= pattern.start_date
                /\ Weekday(Get(pattern.end_date)) = pattern.weekday)
                   => \E o \in ForPattern(occurrences, pattern.id) :
                         o.start_datetime
                             = MakeAwareDatetime(Get(pattern.end_date), pattern.time)

\* generate_for_pattern has created the occurrence on the end_date of a pattern
\* that ends before the horizon and starts off its weekday.
C16_Witness ==
    /\ lastOp.op = "generate_for_pattern"
    /\ PatternOf(lastOp.pattern).end_date # None
    /\ Get(PatternOf(lastOp.pattern).end_date)
           < lastOp.today + DAYS_PER_MONTH * lastOp.months
    /\ Weekday(PatternOf(lastOp.pattern).start_date) # PatternOf(lastOp.pattern).weekday
    /\ \E id \in lastOp.created :
          DateOf(OccurrenceOf(id).start_datetime) = Get(PatternOf(lastOp.pattern).end_date)

\* C17: create_pattern is atomic. A call that raises persists neither the
\* pattern nor any occurrence; a call that returns has persisted the pattern and
\* the occurrences generated for it, and the count it returns is the number of
\* stored occurrences of the pattern.
C17_CreatePatternAtomic ==
    [][IsCall("create_pattern") =>
          IF lastOp'.result = "ok"
          THEN /\ patterns' \ patterns = {p \in patterns' : p.id = lastOp'.pattern}
               /\ patterns' # patterns
               /\ patterns \subseteq patterns'
               /\ occurrences' \ occurrences = ForPattern(occurrences', lastOp'.pattern)
               /\ occurrences \subseteq occurrences'
               /\ Cardinality(lastOp'.created)
                      = Cardinality(ForPattern(occurrences', lastOp'.pattern))
               /\ lastOp'.created = {o.id : o \in ForPattern(occurrences', lastOp'.pattern)}
          ELSE patterns' = patterns /\ occurrences' = occurrences]_vars

\* The insert of the occurrences has failed in a create_pattern call, with
\* patterns and occurrences in the store.
C17_Witness ==
    /\ lastOp.op = "create_pattern"
    /\ lastOp.result = "DatabaseError"
    /\ patterns # {}
    /\ occurrences # {}

\* C18 as stated: whatever the interleaving of the existence checks and the
\* bulk inserts of concurrent generation runs, the store never holds two
\* occurrences of one pattern with the same start_datetime.
C18_NoDuplicateUnderRace ==
    \A o1, o2 \in occurrences :
        (/\ o1.recurrence_pattern # None
         /\ o1.recurrence_pattern = o2.recurrence_pattern
         /\ o1.start_datetime = o2.start_datetime)
            => o1.id = o2.id

\* C20: an occurrence with no recurrence pattern never has is_exception = true.
C20_StandaloneNeverException ==
    \A o \in occurrences : o.recurrence_pattern = None => ~ o.is_exception

\* A one-time occurrence has been moved and then cancelled.
C20_Witness ==
    \E o \in occurrences :
        /\ o.recurrence_pattern = None
        /\ o.start_datetime # MakeAwareDatetime(12, 0)
        /\ o.status = "cancelled"

\* The stored occurrence with the id, after the step.
OccurrenceAfter(oid) == CHOOSE o \in occurrences' : o.id = oid

\* C24: update_occurrence changes exactly the fields that are supplied (not
\* None) and leaves every other field of the occurrence as it was; when
\* start_datetime is supplied and the occurrence belongs to a pattern,
\* is_exception is true afterwards; when start_datetime is not supplied,
\* is_exception is unchanged.
C24_UpdateChangesSuppliedFields ==
    [][\A oid \in OccurrenceIds, d \in OccurrenceUpdateInputs :
          (/\ IsCall("update_occurrence")
           /\ lastOp'.result = "ok"
           /\ update_occurrence(oid, d)) =>
             LET old == OccurrenceOf(oid)
                 new == OccurrenceAfter(oid)
             IN  /\ occurrences' \ {new} = occurrences \ {old}
                 /\ new.title = IF d.title # None THEN Get(d.title) ELSE old.title
                 /\ new.description =
                       IF d.description # None THEN Get(d.description) ELSE old.description
                 /\ new.start_datetime =
                       IF d.start_datetime # None THEN Get(d.start_datetime)
                       ELSE old.start_datetime
                 /\ new.duration_minutes =
                       IF d.duration_minutes # None THEN Get(d.duration_minutes)
                       ELSE old.duration_minutes
                 /\ new.status = old.status
                 /\ new.recurrence_pattern = old.recurrence_pattern
                 /\ (d.start_datetime # None /\ old.recurrence_pattern # None) =>
                       new.is_exception
                 /\ d.start_datetime = None => new.is_exception = old.is_exception
      ]_vars

\* An occurrence of a pattern has just been moved, and kept its title, while
\* another occurrence has been given a title and a duration.
C24_Witness ==
    /\ lastOp.op = "update_occurrence"
    /\ lastOp.result = "ok"
    /\ \E o \in occurrences :
          /\ o.id = lastOp.occurrence
          /\ o.recurrence_pattern # None
          /\ o.start_datetime = MakeAwareDatetime(11, 1)
          /\ o.is_exception
          /\ o.title = "t1"
    /\ \E o \in occurrences :
          /\ o.title = "t2"
          /\ o.duration_minutes = 90
          /\ ~ o.is_exception


\* A window that holds every stored occurrence.
WholeCalendar == [start |-> MakeAwareDatetime(0, 0), end |-> MakeAwareDatetime(100, 0)]

\* The list of occurrences filtered by status = scheduled.
ScheduledList(occs) ==
    OccurrencesInRange(occs, WholeCalendar.start, WholeCalendar.end, Some("scheduled"))

\* What cancel_occurrence does to the occurrence it cancels.
CancelEffect(old, new) ==
    /\ new.status = "cancelled"
    /\ old.recurrence_pattern # None => new.is_exception
    /\ new.start_datetime = old.start_datetime
    /\ new.title = old.title
    /\ new.description = old.description
    /\ new.duration_minutes = old.duration_minutes

BadDuration(update_data) ==
    update_data.duration_minutes # None /\ Get(update_data.duration_minutes) <= 0

\* C26: a failing validation leaves the state unchanged: update_occurrence and
\* update_pattern with duration_minutes <= 0 raise before any field of the
\* occurrence, of the pattern or of a propagated occurrence is modified, also
\* when other, valid fields are supplied in the same call.
C26_RejectedUpdateChangesNothing ==
    [][/\ \A oid \in OccurrenceIds, d \in OccurrenceUpdateInputs :
            (IsCall("update_occurrence") /\ BadDuration(d) /\ update_occurrence(oid, d)) =>
                /\ lastOp'.result = "ValueError"
                /\ occurrences' = occurrences
                /\ patterns' = patterns
       /\ \A pid \in PatternIds, d \in PatternUpdateInputs, propagate \in BOOLEAN :
            (/\ IsCall("update_pattern")
             /\ BadDuration(d)
             /\ update_pattern(pid, d, propagate)) =>
                /\ lastOp'.result = "ValueError"
                /\ patterns' = patterns
                /\ occurrences' = occurrences
      ]_vars

\* An update has just been refused: update_pattern for a pattern with future
\* occurrences to propagate to, or update_occurrence for a stored occurrence.
C26_Witness ==
    /\ lastOp.result = "ValueError"
    /\ \/ /\ lastOp.op = "update_pattern"
          /\ lastOp.pattern \in PatternIds
          /\ FutureOccurrences(occurrences, lastOp.pattern, now) # {}
       \/ /\ lastOp.op = "update_occurrence"
          /\ lastOp.occurrence \in OccurrenceIds


\* The occurrence was rescheduled away from, or cancelled on, the instant it was
\* generated for.
Edited(o) ==
    /\ o.generated_for # None
    /\ \/ o.start_datetime # Get(o.generated_for)
       \/ o.status = "cancelled"

\* C31 as stated: after an occurrence of a pattern has been rescheduled with
\* update_occurrence or cancelled with cancel_occurrence, a generate_for_pattern
\* run creates no new occurrence for the pattern date and time that the edited
\* occurrence was generated for.
C31_NoResurrection ==
    [][IsCall("generate_for_pattern") =>
          \A new \in occurrences' \ occurrences :
              ~ \E old \in occurrences :
                    /\ Edited(old)
                    /\ old.recurrence_pattern = new.recurrence_pattern
                    /\ old.generated_for = Some(new.start_datetime)
      ]_vars


\* C33: update_occurrence never changes the status or the recurrence pattern of
\* an occurrence; complete_occurrence never changes is_exception,
\* start_datetime, title, description or duration_minutes; and no service call
\* (update, cancel, complete, update_pattern, generation) resets is_exception of
\* an occurrence from true to false.
C33_FrameOfOccurrenceCalls ==
    [][\A o \in occurrences :
          /\ o.id \in {o2.id : o2 \in occurrences'}
          /\ LET after == OccurrenceAfter(o.id)
             IN  /\ IsCall("update_occurrence") =>
                       /\ after.status = o.status
                       /\ after.recurrence_pattern = o.recurrence_pattern
                 /\ IsCall("complete_occurrence") =>
                       /\ after.is_exception = o.is_exception
                       /\ after.start_datetime = o.start_datetime
                       /\ after.title = o.title
                       /\ after.description = o.description
                       /\ after.duration_minutes = o.duration_minutes
                 /\ o.is_exception => after.is_exception
      ]_vars

\* An occurrence of a pattern that was moved, and so is an exception, has just
\* been completed.
C33_Witness ==
    /\ lastOp.op = "complete_occurrence"
    /\ lastOp.result = "ok"
    /\ \E o \in occurrences :
          /\ o.id = lastOp.occurrence
          /\ o.status = "completed"
          /\ o.is_exception
          /\ o.generated_for # Some(o.start_datetime)


----------------------------------------------------------------------------
(* Claims on the exception-overlay engine (SessionSpec) *)

\* The windows resolution is checked over.
WindowDates == {0, 7, 8, 14, 15}
WindowInstants == {MakeAwareDatetime(d, tm) : d \in WindowDates, tm \in {0, 1}}
Windows == {w \in [start : WindowInstants, end : WindowInstants] : w.start < w.end}

Resolve(session, w, excs) == GetOccurrences(session, w.start, w.end, excs)

\* The entries of a resolution other than the one of (session sid, date).
OtherEntries(entries, sid, date) ==
    SelectSeq(entries, LAMBDA en : ~ (en.session_id = sid /\ en.occurrence_date = date))

\* C3: while a cancel exception is stored for session S and date D, no window
\* resolves S to an entry with occurrence_date D.
C3_CancelledNeverResolved ==
    \A s \in sessions : \A e \in BagToSet(exceptions) :
        (e.session = s.id /\ e.is_cancelled) =>
            \A w \in Windows :
                \A i \in DOMAIN Resolve(s, w, exceptions) :
                    Resolve(s, w, exceptions)[i].occurrence_date # e.exception_date

\* A cancel exception is stored on a date that resolves in some window without it.
C3_Witness ==
    \E s \in sessions : \E e \in BagToSet(exceptions) : \E w \in Windows :
        /\ e.session = s.id
        /\ e.is_cancelled
        /\ s.session_type = "recurring"
        /\ \E i \in DOMAIN Resolve(s, w, EmptyBag) :
              Resolve(s, w, EmptyBag)[i].occurrence_date = e.exception_date

\* C4: the entry a recurring session resolves to for a date with a reschedule
\* exception to T is at T and is_modified; the entry for a date with no
\* exception is at the date combined with the session's time of day and not
\* is_modified.
C4_RescheduledResolvesAtNewInstant ==
    \A s \in sessions : \A w \in Windows :
        s.session_type = "recurring" =>
            \A i \in DOMAIN Resolve(s, w, exceptions) :
                LET entry == Resolve(s, w, exceptions)[i]
                    rows == ExceptionsOn(exceptions, s.id, entry.occurrence_date)
                IN  /\ \A e \in rows :
                          (~ e.is_cancelled /\ e.modified_datetime # None) =>
                              /\ entry.datetime = e.modified_datetime
                              /\ entry.is_modified
                    /\ rows = {} =>
                          /\ entry.datetime =
                                 Some(MakeAwareDatetime(entry.occurrence_date,
                                                        TimeOf(s.start_datetime)))
                          /\ ~ entry.is_modified

\* One window resolves a recurring session to a rescheduled entry and to an
\* entry with no exception.
C4_Witness ==
    \E s \in sessions : \E w \in Windows :
        /\ s.session_type = "recurring"
        /\ \E i, j \in DOMAIN Resolve(s, w, exceptions) :
              /\ Resolve(s, w, exceptions)[i].is_modified
              /\ Resolve(s, w, exceptions)[i].datetime
                     # Some(MakeAwareDatetime(Resolve(s, w, exceptions)[i].occurrence_date,
                                              TimeOf(s.start_datetime)))
              /\ ~ Resolve(s, w, exceptions)[j].is_modified
              /\ ExceptionsOn(exceptions, s.id,
                              Resolve(s, w, exceptions)[j].occurrence_date) = {}

\* A step that is a cancel or a reschedule of (session sid, date) and writes
\* the store. (A request that writes nothing leaves every resolution as it was.)
ManagesOccurrence(sid, occ_date) ==
    /\ exceptions' # exceptions
    /\ \E method \in {"DELETE", "PATCH"}, cancel \in BOOLEAN,
          new_datetime \in {None} \cup {Some(t) : t \in NewDatetimes} :
              manage_occurrence(sid, occ_date, method, new_datetime, cancel)

\* C10: a cancel or reschedule of the occurrence of session S on date D changes,
\* in every window, no resolved entry of S for another date and no resolved
\* entry of another session.
C10_ManageOccurrenceFrame ==
    [][\A sid \in SessionIds, occ_date \in RequestDates :
          ManagesOccurrence(sid, occ_date) =>
              \A s \in sessions : \A w \in Windows :
                  OtherEntries(Resolve(s, w, exceptions'), sid, occ_date)
                      = OtherEntries(Resolve(s, w, exceptions), sid, occ_date)]_vars

\* An occurrence has been cancelled or moved while its session resolves other
\* dates in some window and another session resolves too.
C10_Witness ==
    /\ response \in {"200 cancelled", "200 moved"}
    /\ \E s, s2 \in sessions : \E e \in BagToSet(exceptions) : \E w \in Windows :
          /\ e.session = s.id
          /\ s2.id # s.id
          /\ Len(OtherEntries(Resolve(s, w, exceptions), s.id, e.exception_date)) >= 1
          /\ Len(Resolve(s2, w, exceptions)) >= 1

\* The bodies of a PATCH request.
PatchBodies == [new_datetime : {None} \cup {Some(t) : t \in NewDatetimes}, cancel : BOOLEAN]

\* A step that is a request to manage_occurrence for (session sid, date).
Requests(sid, occ_date) ==
    \/ manage_occurrence(sid, occ_date, "DELETE", None, FALSE)
    \/ \E b \in PatchBodies :
          manage_occurrence(sid, occ_date, "PATCH", b.new_datetime, b.cancel)

\* C11: a cancel or reschedule request for a recurring session on a date off its
\* recurrence weekday, or before its start date, is answered with a 400 error
\* about the date and creates or modifies no SessionException.
C11_InvalidDateRejected ==
    [][\A sid \in SessionIds, occ_date \in RequestDates :
          (/\ SessionOf(sid).session_type = "recurring"
           /\ \/ Some(Weekday(occ_date)) # SessionOf(sid).recurrence_day
              \/ occ_date < DateOf(SessionOf(sid).start_datetime)
           /\ Requests(sid, occ_date))
              => /\ response' \in {"400 not on the recurrence day",
                                   "400 before the session start date"}
                 /\ exceptions' = exceptions]_vars

\* A request on a date before the session start has been rejected while the
\* store holds exceptions.
C11_Witness ==
    /\ response = "400 before the session start date"
    /\ exceptions # EmptyBag

\* C12: after any sequence of cancel and reschedule requests there is at most
\* one SessionException for each pair of session and exception_date.
C12_OneExceptionPerDate ==
    \A sid \in SessionIds, occ_date \in RequestDates :
        CountOn(exceptions, sid, occ_date) <= 1

\* A request has been repeated on a date that already had an exception, while
\* another date of the same session has one too.
C12_Witness ==
    /\ response \in {"200 cancelled", "200 moved"}
    /\ ~ upsertCreated
    /\ \E e1, e2 \in BagToSet(exceptions) :
          e1.session = e2.session /\ e1.exception_date # e2.exception_date

\* C13: every stored SessionException has exactly one of is_cancelled = true and
\* modified_datetime set: never both and never neither.
C13_CancelledXorModified ==
    \A e \in BagToSet(exceptions) :
        e.is_cancelled <=> (e.modified_datetime = None)

\* A cancel has replaced the row of a date while the store holds a reschedule
\* and a cancel.
C13_Witness ==
    /\ response = "200 cancelled"
    /\ ~ upsertCreated
    /\ \E e1, e2 \in BagToSet(exceptions) :
          e1.is_cancelled /\ e2.modified_datetime # None

\* C15 as stated: every entry get_occurrences(start, end) returns, for a recurring
\* or a one-time session, rescheduled or not, has its instant t with
\* start <= t < end.
C15_ResolvedInsideWindow ==
    \A s \in sessions : \A w \in Windows :
        \A i \in DOMAIN Resolve(s, w, exceptions) :
            LET t == Get(Resolve(s, w, exceptions)[i].datetime)
            IN  w.start <= t /\ t < w.end

\* The windows listed: one over every stored instant, one that starts and ends on
\* occurrences, one between the two reschedule targets, and one that is empty.
ListWindows ==
    {[start |-> MakeAwareDatetime(0, 0), end |-> MakeAwareDatetime(15, 1)],
     [start |-> MakeAwareDatetime(7, 1), end |-> MakeAwareDatetime(14, 1)],
     [start |-> MakeAwareDatetime(8, 0), end |-> MakeAwareDatetime(15, 0)],
     [start |-> MakeAwareDatetime(14, 0), end |-> MakeAwareDatetime(14, 0)]}

\* C27: list with start and end returns the union of get_occurrences(start, end)
\* of all sessions, in non-decreasing order of effective instant; a rescheduled
\* occurrence is ordered by its modified datetime and not by its original date.
C27_ListSortedUnion ==
    \A w \in ListWindows :
        w.start < w.end =>
            LET data == list(w.start, w.end).data
            IN  /\ list(w.start, w.end).status = "200"
                /\ Range(data) = UNION {Range(Resolve(s, w, exceptions)) : s \in sessions}
                /\ \A s \in sessions :
                      Len(SelectSeq(data, LAMBDA en : en.session_id = s.id))
                          = Len(Resolve(s, w, exceptions))
                /\ \A i, j \in DOMAIN data :
                      i < j => Get(data[i].datetime) <= Get(data[j].datetime)
                /\ \A i \in DOMAIN data :
                      data[i].is_modified =>
                          \E e \in ExceptionsOn(exceptions, data[i].session_id,
                                                data[i].occurrence_date) :
                              e.modified_datetime = data[i].datetime

\* A list holds a rescheduled occurrence placed, by its modified datetime, before
\* an occurrence of an earlier date and after one of another session.
C27_Witness ==
    \E w \in ListWindows :
        LET data == list(w.start, w.end).data
        IN  \E i, j, k \in DOMAIN data :
                /\ i < j /\ j < k
                /\ data[j].is_modified
                /\ data[k].occurrence_date < data[j].occurrence_date
                /\ data[i].session_id # data[j].session_id


\* The windows in which the session has an occurrence on the date when no
\* exception is stored.
WindowsHolding(s, date) ==
    {w \in Windows :
        \E i \in DOMAIN Resolve(s, w, EmptyBag) :
            Resolve(s, w, EmptyBag)[i].occurrence_date = date}

\* C30: the last write on a date wins. When a cancel of (session, D) is followed
\* by a reschedule of D to T, every window that holds the occurrence of D
\* resolves it at T, flagged modified; when a reschedule of D is followed by a
\* cancel of D, no window resolves an entry for D; in both cases exactly one
\* exception is stored for (session, D) afterwards.
C30_LastWriteWins ==
    [][\A sid \in SessionIds, occ_date \in RequestDates :
          /\ \A t \in NewDatetimes :
                (/\ response' = "200 moved"
                 /\ \E e \in ExceptionsOn(exceptions, sid, occ_date) : e.is_cancelled
                 /\ manage_occurrence(sid, occ_date, "PATCH", Some(t), FALSE)) =>
                    /\ CountOn(exceptions', sid, occ_date) = 1
                    /\ \A w \in WindowsHolding(SessionOf(sid), occ_date) :
                          \E i \in DOMAIN Resolve(SessionOf(sid), w, exceptions') :
                              LET en == Resolve(SessionOf(sid), w, exceptions')[i]
                              IN  /\ en.occurrence_date = occ_date
                                  /\ en.datetime = Some(t)
                                  /\ en.is_modified
          /\ (/\ response' = "200 cancelled"
              /\ \E e \in ExceptionsOn(exceptions, sid, occ_date) : ~ e.is_cancelled
              /\ \/ manage_occurrence(sid, occ_date, "DELETE", None, FALSE)
                 \/ \E b \in PatchBodies :
                       manage_occurrence(sid, occ_date, "PATCH", b.new_datetime, TRUE)) =>
                 /\ CountOn(exceptions', sid, occ_date) = 1
                 /\ \A w \in Windows :
                       \A i \in DOMAIN Resolve(SessionOf(sid), w, exceptions') :
                           Resolve(SessionOf(sid), w, exceptions')[i].occurrence_date
                               # occ_date
      ]_vars

\* A reschedule has just replaced the row of a date, the store holds a
\* reschedule of an occurrence that some window holds, and it holds a cancel.
C30_Witness ==
    /\ response = "200 moved"
    /\ ~ upsertCreated
    /\ \E e \in BagToSet(exceptions) :
          /\ ~ e.is_cancelled
          /\ WindowsHolding(SessionOf(e.session), e.exception_date) # {}
    /\ \E e \in BagToSet(exceptions) : e.is_cancelled


----------------------------------------------------------------------------
(* Claims on get_occurrences without exceptions (ResolveSpec) *)

\* The instants of the entries returned by the last get_occurrences call.
ReturnedInstants == {Get(lastOp.returned[i].datetime) : i \in DOMAIN lastOp.returned}

\* The instant is an occurrence of a weekly series that starts at first.
OnSeries(first, t) == t >= first /\ (t - first) % Week = 0

\* C29: for a recurring session with first instant S and no exceptions, every
\* entry of get_occurrences(start, end) is at S + 7k days for an integer k >= 0,
\* no instant is returned twice, and every S + 7k days strictly inside the
\* window is returned; the fast-forward to the window never skips the first
\* occurrence in the window, and nothing is returned when S is after the end of
\* the window.
C29_WeeklySeriesInWindow ==
    (/\ lastOp.op = "get_occurrences"
     /\ SessionOf(lastOp.session).session_type = "recurring"
     /\ exceptions = EmptyBag) =>
        LET first == SessionOf(lastOp.session).start_datetime
        IN  /\ \A t \in ReturnedInstants : OnSeries(first, t)
            /\ Cardinality(ReturnedInstants) = Len(lastOp.returned)
            /\ \A t \in lastOp.start + 1 .. lastOp.end - 1 :
                  OnSeries(first, t) => t \in ReturnedInstants
            /\ first > lastOp.end => lastOp.returned = <<>>

\* A window that starts more than two weeks after the first instant, off the
\* series, has returned two occurrences or more.
C29_Witness ==
    /\ lastOp.op = "get_occurrences"
    /\ SessionOf(lastOp.session).session_type = "recurring"
    /\ lastOp.start > SessionOf(lastOp.session).start_datetime + 2 * Week
    /\ ~ OnSeries(SessionOf(lastOp.session).start_datetime, lastOp.start)
    /\ Len(lastOp.returned) >= 2


----------------------------------------------------------------------------
(* Claims on concurrent requests to manage_occurrence (UpsertRaceSpec) *)

RaceOver == \A r \in ReqIds : reqs[r].pc \in {"done", "failed"}

\* The store after executing the request of the race once, from the store the
\* race started with.
ExecutedOnce ==
    LET q == reqs[CHOOSE r \in ReqIds : TRUE]
    IN  UpdateOrCreate(q.before, q.session, q.exception_date,
                       q.is_cancelled, q.modified_datetime)

\* C19: when two identical cancel or reschedule requests for one (session, date)
\* have executed concurrently, in any interleaving, the store holds exactly one
\* SessionException for the pair, it carries the override requested, and every
\* window resolves as after executing the request once.
C19_IdenticalRequestsOneException ==
    RaceOver =>
        LET q == reqs[CHOOSE r \in ReqIds : TRUE]
        IN  /\ CountOn(exceptions, q.session, q.exception_date) = 1
            /\ \A e \in ExceptionsOn(exceptions, q.session, q.exception_date) :
                  e = RowOf(q)
            /\ \A s \in sessions : \A w \in Windows :
                  Resolve(s, w, exceptions) = Resolve(s, w, ExecutedOnce)

\* Both requests found no row; one inserted it and the other was ended by the
\* uniqueness validation.
C19_Witness ==
    /\ RaceOver
    /\ \E r1, r2 \in ReqIds : reqs[r1].pc = "done" /\ reqs[r2].pc = "failed"
    /\ ExceptionsOn(reqs[1].before, reqs[1].session, reqs[1].exception_date) = {}
    /\ reqs[1].before # EmptyBag

----------------------------------------------------------------------------
(* Claims on get_occurrences_in_range (RangeSpec) *)

\* C14 as stated: get_occurrences_in_range(start, end, status) with start < end
\* returns exactly the stored occurrences with start <= start_datetime < end,
\* of the given status when one is given, by ascending start_datetime.
C14_RangeExcludesEnd ==
    (lastOp.op = "get_occurrences_in_range" /\ lastOp.start < lastOp.end) =>
        /\ Range(lastOp.returned) =
               {o \in occurrences :
                   /\ lastOp.start <= o.start_datetime
                   /\ o.start_datetime < lastOp.end
                   /\ lastOp.status # None => o.status = Get(lastOp.status)}
        /\ \A i, j \in DOMAIN lastOp.returned :
               i < j => lastOp.returned[i].start_datetime
                            <= lastOp.returned[j].start_datetime

----------------------------------------------------------------------------
(* Claims on the life of a pattern (LifecycleSpec) *)

IsGeneration ==
    IsCall("generate_for_pattern") \/ IsCall("generate_for_all_patterns")

\* The dates of a pattern, over the horizon, that have no stored occurrence.
MissingDates(pattern, months_ahead, occs, t) ==
    {d \in Range(CalculateOccurrenceDates(pattern, months_ahead, t)) :
        ShouldCreateOccurrence(pattern, d, occs)}

\* C21: delete_pattern with delete_future_occurrences = False only sets
\* is_active to false: the pattern stays stored with its other fields, and every
\* occurrence, past and future, stays stored and unchanged; and every later run
\* of generate_for_pattern or generate_for_all_patterns creates no occurrence
\* for a pattern that is inactive.
C21_DeactivationKeepsHistory ==
    [][/\ (IsCall("delete_pattern") /\ ~ lastOp'.delete_future_occurrences) =>
            /\ patterns' = {IF p.id = lastOp'.pattern
                            THEN [p EXCEPT !.is_active = FALSE] ELSE p : p \in patterns}
            /\ occurrences' = occurrences
       /\ IsGeneration =>
            \A p \in patterns :
                ~ p.is_active =>
                    /\ p \in patterns'
                    /\ ForPattern(occurrences', p.id) = ForPattern(occurrences, p.id)
                    /\ \A o \in occurrences' :
                           o.id \in lastOp'.created => o.recurrence_pattern # Some(p.id)
      ]_vars

\* A generation run has just ended while a deactivated pattern, with a past and
\* a future occurrence, lacks occurrences inside the horizon of the run.
C21_Witness ==
    /\ lastOp.op \in {"generate_for_pattern", "generate_for_all_patterns"}
    /\ \E p \in patterns :
          /\ ~ p.is_active
          /\ (lastOp.op = "generate_for_pattern" => lastOp.pattern = p.id)
          /\ MissingDates(p, lastOp.months, occurrences, now) # {}
          /\ \E o \in ForPattern(occurrences, p.id) : o.start_datetime < now
          /\ \E o \in ForPattern(occurrences, p.id) : o.start_datetime >= now

\* C22: delete_pattern with delete_future_occurrences = True removes the pattern
\* and every occurrence of it that starts at or after now; afterwards no stored
\* occurrence refers to a pattern that is not stored, and the occurrences of
\* other patterns and the standalone occurrences are all still stored.
C22_DeleteLeavesNoOrphan ==
    [][(IsCall("delete_pattern") /\ lastOp'.delete_future_occurrences) =>
          LET pid == lastOp'.pattern
          IN  /\ patterns' = {p \in patterns : p.id # pid}
              /\ \A o \in occurrences' :
                    ~ (o.recurrence_pattern = Some(pid) /\ o.start_datetime >= now)
              /\ \A o \in occurrences' :
                    o.recurrence_pattern # None =>
                        \E p \in patterns' : p.id = Get(o.recurrence_pattern)
              /\ \A o \in occurrences :
                    o.recurrence_pattern # Some(pid) => o \in occurrences'
      ]_vars

\* A pattern that had occurrences has just been deleted with them, and an
\* occurrence that was not its own is stored.
C22_Witness ==
    /\ lastOp.op = "delete_pattern"
    /\ lastOp.delete_future_occurrences
    /\ lastOp.pattern \notin PatternIds
    /\ occurrences # {}
    /\ nextOccurrenceId - 1 > Cardinality(occurrences)

\* The arguments of a create_pattern call break one of the three rules.
Refused(weekday, duration_minutes, start_date, end_date) ==
    \/ weekday \notin 0 .. 6
    \/ duration_minutes <= 0
    \/ end_date # None /\ Get(end_date) <= start_date

\* C23: create_pattern fails with a validation error, and stores neither a
\* pattern nor an occurrence, when weekday is outside 0..6, duration_minutes is
\* not positive, or end_date is set and not after start_date; every stored
\* pattern has weekday in 0..6, a positive duration, and no end_date or one after
\* its start_date.
C23_InvalidPatternRejected ==
    [][/\ \A r \in LifecycleRequests, duration_minutes \in {60, 0} :
            (/\ create_pattern("t1", r.weekday, 0, r.start_date, duration_minutes, "d1",
                               r.end_date, r.generate_occurrences, r.months_ahead)
             /\ Refused(r.weekday, duration_minutes, r.start_date, r.end_date)) =>
                /\ lastOp'.result = "ValueError"
                /\ patterns' = patterns
                /\ occurrences' = occurrences
       /\ \A p \in patterns' :
            /\ p.weekday \in 0 .. 6
            /\ p.duration_minutes > 0
            /\ p.end_date = None \/ Get(p.end_date) > p.start_date
      ]_vars

\* A create_pattern call has just been refused while a pattern with an end date
\* and its occurrences are stored.
C23_Witness ==
    /\ lastOp.op = "create_pattern"
    /\ lastOp.result = "ValueError"
    /\ \E p \in patterns : p.end_date # None /\ ForPattern(occurrences, p.id) # {}

\* C28: generate_for_all_patterns creates the missing occurrences of every
\* active pattern and none for an inactive pattern, and returns a total equal to
\* the number of occurrences it added to the store; a second run with the same
\* horizon on the same date returns 0.
C28_GenerateAllCoversActivePatterns ==
    [][IsCall("generate_for_all_patterns") =>
          /\ patterns' = patterns
          /\ occurrences \subseteq occurrences'
          /\ lastOp'.total = Cardinality(occurrences' \ occurrences)
          /\ \A p \in patterns :
                LET added == ForPattern(occurrences' \ occurrences, p.id)
                IN  IF p.is_active
                    THEN /\ MissingDates(p, lastOp'.months, occurrences', now) = {}
                         /\ {o.start_datetime : o \in added} =
                               {MakeAwareDatetime(d, p.time) :
                                   d \in MissingDates(p, lastOp'.months, occurrences, now)}
                         /\ Cardinality(added) =
                               Cardinality(MissingDates(p, lastOp'.months, occurrences, now))
                    ELSE added = {}
          /\ \A o \in occurrences' \ occurrences : o.recurrence_pattern # None
          /\ (/\ lastOp.op = "generate_for_all_patterns"
              /\ lastOp.months = lastOp'.months
              /\ lastOp.today = lastOp'.today) => lastOp'.total = 0
      ]_vars

\* A run has just created occurrences for two active patterns.
C28_Witness ==
    /\ lastOp.op = "generate_for_all_patterns"
    /\ lastOp.total > 0
    /\ \E p, q \in ActivePatterns(patterns) :
          /\ p # q
          /\ \E o \in ForPattern(occurrences, p.id) : o.id \in lastOp.created
          /\ \E o \in ForPattern(occurrences, q.id) : o.id \in lastOp.created

----------------------------------------------------------------------------
(* Claims on patterns whose occurrences are never edited (TemplateSpec) *)

\* C32 as stated: after any sequence of generate_for_pattern and update_pattern
\* calls, updates of time_of_day included, with no edit of an occurrence, a
\* pattern has at most one stored occurrence per calendar date.
C32_OneOccurrencePerDate ==
    \A o1, o2 \in occurrences :
        (/\ o1.recurrence_pattern # None
         /\ o1.recurrence_pattern = o2.recurrence_pattern
         /\ DateOf(o1.start_datetime) = DateOf(o2.start_datetime))
            => o1.id = o2.id


====
